---- MODULE Spec2Model ----
(***************************************************************************)
(* Model of the RepoAI frontend session logic:                             *)
(*   - App.jsx: runAnalysis (chunked "data: " stream decode loop) and      *)
(*     handleSSE (typed frame dispatch into the analysis state);           *)
(*   - TerminalPanel.jsx: runCommand / askAI / approvePending /            *)
(*     handleSubmit (command approval gate and terminal session).          *)
(* Strings that the code inspects character by character (stream bytes,    *)
(* lines, command texts) are sequences of one-character strings.  A        *)
(* nullable JavaScript value is a sequence of length 0 (null) or 1.        *)
(***************************************************************************)
EXTENDS Integers, Sequences, FiniteSets, TLC

VARIABLES
    \* ---- App.jsx state (useState hooks, lines 11-19)
    activeTab, messages, analysisResults, summary, isAnalyzing, analyzeProgress,
    \* ---- one record per runAnalysis invocation (its locals and closure)
    streams,
    \* ---- TerminalPanel.jsx state (useState hooks, lines 9-14)
    history, input, cwd, mode, pending, loading,
    \* ---- the runCommand / askAI invocations awaiting a response
    tasks, nOps,
    \* ---- the requests sent to the backend so far, in order
    reqs,
    \* ---- history of the approval gate: proposals, approvals, cancels
    gate,
    \* ---- FilesPanel state (useState hooks, lines 4-19 of part_000), the file
    \* ---- requests awaiting a response, and the file requests sent so far
    files, ftasks, freqs

appVars == <<activeTab, messages, analysisResults, summary, isAnalyzing,
             analyzeProgress, streams>>

termVars == <<history, input, cwd, mode, pending, loading, tasks, nOps, reqs, gate>>

fileVars == <<files, ftasks, freqs>>

vars == <<activeTab, messages, analysisResults, summary, isAnalyzing,
          analyzeProgress, streams,
          history, input, cwd, mode, pending, loading, tasks, nOps, reqs, gate,
          files, ftasks, freqs>>

\* ------------------------------------------------------------------ bounds
\* Lines the backend writes into one response body.
MaxFrames == 3
\* Well-formed frames of a body whose bytes are cut at every position.
MaxLines == 2
\* runCommand and askAI invocations of one terminal session.
MaxOps == 4

\* ------------------------------------------------------- generic helpers
Null == <<>>
Some(x) == <<x>>
Last(s) == s[Len(s)]
Front(s) == SubSeq(s, 1, Len(s) - 1)

\* ------------------------------------------------------------ wire format
NL == "\n"
\* "data: ", the marker tested by line.startsWith and cut by line.slice(6)
Marker == <<"d", "a", "t", "a", ":", " ">>
MarkerLen == 6
\* U+FFFD, what TextDecoder emits for a malformed byte sequence
Replacement == "FFFD"

\* The values JSON.parse can return for the payloads of the model.
EvP1 == [kind |-> "object", type |-> "progress", current |-> 1, total |-> 3, file |-> "a.py"]
EvP2 == [kind |-> "object", type |-> "progress", current |-> 2, total |-> 3, file |-> "b.py"]
EvF1 == [kind |-> "object", type |-> "file_result", file |-> "a.py", analysis |-> "x"]
EvF2 == [kind |-> "object", type |-> "file_result", file |-> "b.py", analysis |-> "e-acute"]
EvS == [kind |-> "object", type |-> "summary", summary |-> "ok"]
EvD == [kind |-> "object", type |-> "done", total_analyzed |-> 2]
EvE == [kind |-> "object", type |-> "error", message |-> "boom"]
EvU == [kind |-> "object", type |-> "ping"]
EvNull == [kind |-> "null"]

KnownTypes == {"progress", "file_result", "summary", "done", "error"}
KnownEvents == {EvP1, EvP2, EvF1, EvF2, EvS, EvD, EvE}
JSONValues == KnownEvents \cup {EvU, EvNull}

\* The JSON text of each value (characters).  EvF2 carries the two-byte
\* character e-acute, written "U+E9" as a character and C3 A9 as bytes.
JSONText(v) ==
    CASE v = EvP1 -> <<"{", "p", "1", "}">>
      [] v = EvP2 -> <<"{", "p", "2", "}">>
      [] v = EvF1 -> <<"{", "f", "1", "}">>
      [] v = EvF2 -> <<"{", "f", "U+E9", "}">>
      [] v = EvS -> <<"{", "s", "}">>
      [] v = EvD -> <<"{", "d", "}">>
      [] v = EvE -> <<"{", "e", "}">>
      [] v = EvU -> <<"{", "u", "}">>
      [] v = EvNull -> <<"n">>

\* JSON.parse: the value of a well-formed text, Null for a SyntaxError.
JSONParse(text) ==
    IF \E v \in JSONValues : JSONText(v) = text
    THEN Some(CHOOSE v \in JSONValues : JSONText(v) = text)
    ELSE Null

\* A payload that is not JSON (an object cut short).
BadPayload == <<"{", "p">>

\* UTF-8 encoding done by the backend.
RECURSIVE Utf8Encode(_)
Utf8Encode(chars) ==
    IF chars = <<>> THEN <<>>
    ELSE (IF Head(chars) = "U+E9" THEN <<"C3", "A9">> ELSE <<Head(chars)>>)
         \o Utf8Encode(Tail(chars))

\* The lines (without their newline) the backend may write.
FrameLine(v) == Marker \o JSONText(v)
BadLine == Marker \o BadPayload
BlankLine == <<>>
WellFormedLines == {FrameLine(v) : v \in KnownEvents}
Lines == {FrameLine(v) : v \in JSONValues} \cup {BadLine, BlankLine}

RECURSIVE SeqsUpTo(_, _)
SeqsUpTo(S, n) ==
    IF n = 0 THEN {<<>>}
    ELSE LET shorter == SeqsUpTo(S, n - 1)
         IN shorter \cup {Append(s, x) : s \in {t \in shorter : Len(t) = n - 1}, x \in S}

\* A response body: up to MaxFrames newline-terminated lines.
Scripts == SeqsUpTo(Lines, MaxFrames)
\* Bodies of up to MaxLines well-formed frames.
DecodeScripts == SeqsUpTo(WellFormedLines, MaxLines)

RECURSIVE BodyBytes(_)
BodyBytes(script) ==
    IF script = <<>> THEN <<>>
    ELSE Utf8Encode(Head(script)) \o <<NL>> \o BodyBytes(Tail(script))

\* ------------------------------------------------------------ decode loop
\* decoder.decode(value, {stream: true}): bytes to characters; an incomplete
\* multi-byte sequence at the end of the chunk is kept for the next call.
\* Result: <<characters, kept bytes>>.
RECURSIVE DecodeFrom(_, _, _, _)
DecodeFrom(kept, bytes, n, out) ==
    IF n > Len(bytes) THEN <<out, kept>>
    ELSE LET b == bytes[n] IN
         IF kept = <<"C3">>
         THEN IF b = "A9"
              THEN DecodeFrom(<<>>, bytes, n + 1, Append(out, "U+E9"))
              ELSE DecodeFrom(<<>>, bytes, n, Append(out, Replacement))
         ELSE IF b = "C3" THEN DecodeFrom(<<"C3">>, bytes, n + 1, out)
         ELSE IF b = "A9" THEN DecodeFrom(<<>>, bytes, n + 1, Append(out, Replacement))
         ELSE DecodeFrom(<<>>, bytes, n + 1, Append(out, b))

\* The same without {stream: true}: a sequence cut by the chunk end is
\* replaced at once.
DecodeNoStream(kept, bytes) ==
    LET r == DecodeFrom(<<>>, bytes, 1, <<>>)
    IN IF r[2] = <<>> THEN r ELSE <<Append(r[1], Replacement), <<>>>>

TextDecode(kept, bytes) == DecodeFrom(kept, bytes, 1, <<>>)

\* buffer.split("\n"): the segments between newlines, at least one.
RECURSIVE SplitFrom(_, _, _)
SplitFrom(chars, start, acc) ==
    LET nls == {j \in start..Len(chars) : chars[j] = NL}
    IN IF nls = {} THEN Append(acc, SubSeq(chars, start, Len(chars)))
       ELSE LET j == CHOOSE x \in nls : \A y \in nls : x <= y
            IN SplitFrom(chars, j + 1, Append(acc, SubSeq(chars, start, j - 1)))

SplitLines(chars) == SplitFrom(chars, 1, <<>>)

\* line.startsWith(prefix)
StartsWith(line, prefix) ==
    /\ Len(line) >= Len(prefix)
    /\ SubSeq(line, 1, Len(prefix)) = prefix

\* line.slice(n)
Slice(line, n) == SubSeq(line, n + 1, Len(line))


\* ------------------------------------------------------------- App state
Repos == {"o/r"}
Tabs == {"chat", "results", "terminal", "files"}

\* !x for a nullable string: null and "" are falsy.
Falsy(opt) == opt = Null \/ opt = Some("")

UserMsg(content) == [role |-> "user", content |-> content]
AssistantMsg(content) == [role |-> "assistant", content |-> content]
Welcome == AssistantMsg(<<"welcome">>)
ProgressZero == [current |-> 0, total |-> 0, file |-> ""]

\* The state the handlers of one pass of the decode loop write, as a record
\* (functional updates of one batch compose in call order).
AppState ==
    [messages |-> messages, analysisResults |-> analysisResults,
     summary |-> summary, analyzeProgress |-> analyzeProgress,
     activeTab |-> activeTab]

\* The `summary` that handleSSE reads at line 116: the constant of the render
\* whose runAnalysis call is executing, not the state set by setSummary.
SummaryInHandler(st, sumClosure) == sumClosure

\* handleSSE with file results put in front of the list instead of behind.
HandleSSEPrepend(st, event, repo, sumClosure) ==
    IF event.kind = "object" /\ event.type = "file_result"
    THEN [st EXCEPT !.analysisResults =
             <<[path |-> event.file, analysis |-> event.analysis]>> \o @]
    ELSE IF event.kind = "object" /\ event.type = "progress"
    THEN [st EXCEPT !.analyzeProgress =
             Some([current |-> event.current, total |-> event.total,
                   file |-> event.file])]
    ELSE IF event.kind = "object" /\ event.type = "summary"
    THEN [st EXCEPT !.summary = Some(event.summary),
                    !.messages = Append(@, AssistantMsg(
                        <<"done-summary", repo, event.summary>>)),
                    !.activeTab = "chat"]
    ELSE st

\* handleSSE(event, repo).  event.type of JSON null throws a TypeError, which
\* the try/catch of the decode loop swallows before any state is written.
HandleSSE(st, event, repo, sumClosure) ==
    IF event.kind # "object" THEN st
    ELSE CASE event.type = "progress" ->
                [st EXCEPT !.analyzeProgress =
                    Some([current |-> event.current, total |-> event.total,
                          file |-> event.file])]
           [] event.type = "file_result" ->
                [st EXCEPT !.analysisResults =
                    Append(@, [path |-> event.file, analysis |-> event.analysis])]
           [] event.type = "summary" ->
                [st EXCEPT !.summary = Some(event.summary),
                           !.messages = Append(@, AssistantMsg(
                               <<"done-summary", repo, event.summary>>)),
                           !.activeTab = "chat"]
           [] event.type = "done" ->
                IF Falsy(SummaryInHandler(st, sumClosure))
                THEN [st EXCEPT !.messages = Append(@, AssistantMsg(
                                    <<"done-count", event.total_analyzed, repo>>)),
                                !.activeTab = "chat"]
                ELSE st
           [] event.type = "error" ->
                [st EXCEPT !.messages = Append(@, AssistantMsg(
                               <<"warning", event.message>>))]
           [] OTHER -> st

\* One line of the for loop (lines 83-89): [st, dispatched] after the line.
\* dispatched records the values handleSSE was called with.
ProcessLine(acc, line, repo, sumClosure) ==
    IF ~StartsWith(line, Marker) THEN acc
    ELSE LET parsed == JSONParse(Slice(line, MarkerLen))
         IN IF parsed = Null THEN acc
            ELSE [st |-> HandleSSE(acc.st, parsed[1], repo, sumClosure),
                  dispatched |-> Append(acc.dispatched, parsed[1])]

\* The loop without the inner try/catch: a payload that does not parse ends
\* the pass, and the lines after it are lost.
RECURSIVE ProcessLinesAbort(_, _, _, _)
ProcessLinesAbort(acc, lines, repo, sumClosure) ==
    IF lines = <<>> THEN acc
    ELSE IF StartsWith(Head(lines), Marker)
            /\ JSONParse(Slice(Head(lines), MarkerLen)) = Null
         THEN acc
         ELSE ProcessLinesAbort(ProcessLine(acc, Head(lines), repo, sumClosure),
                                Tail(lines), repo, sumClosure)

RECURSIVE ProcessLines(_, _, _, _)
ProcessLines(acc, lines, repo, sumClosure) ==
    IF lines = <<>> THEN acc
    ELSE ProcessLines(ProcessLine(acc, Head(lines), repo, sumClosure),
                      Tail(lines), repo, sumClosure)

\* ------------------------------------------------- terminal: pure parts
\* Command texts are sequences of characters.
TxtLs == <<"l", "s">>
TxtHi == <<"h", "i">>
TxtPwd == <<"p", "w", "d">>
CmdA == <<"r", "m", " ", "a">>
CmdB == <<"r", "m", " ", "b">>
\* useState("/workspaces"), line 11
InitialCwd == <<"/", "w">>
InfoLine == [type |-> "info", text |-> <<"banner">>]

IsSpace(c) == c \in {" ", "\n", "\t"}

\* String.prototype.trim / trimEnd
RECURSIVE TrimEnd(_)
TrimEnd(t) ==
    IF t # <<>> /\ IsSpace(t[Len(t)]) THEN TrimEnd(SubSeq(t, 1, Len(t) - 1)) ELSE t

RECURSIVE TrimStart(_)
TrimStart(t) ==
    IF t # <<>> /\ IsSpace(t[1]) THEN TrimStart(Tail(t)) ELSE t

Trim(t) == TrimEnd(TrimStart(t))

\* Truthiness of a nullable string: null and "" are falsy.
Truthy(opt) == opt # Null /\ opt[1] # <<>>

\* `${cmd}` in a template literal: null prints as "null".
Template(opt) == IF opt = Null THEN <<"n", "u", "l", "l">> ELSE opt[1]

\* \w of the regular expression at line 89
WordChars ==
    {"a", "b", "c", "d", "e", "f", "g", "h", "i", "j", "k", "l", "m", "n", "o",
     "p", "q", "r", "s", "t", "u", "v", "w", "x", "y", "z",
     "A", "B", "C", "D", "E", "F", "G", "H", "I", "J", "K", "L", "M", "N", "O",
     "P", "Q", "R", "S", "T", "U", "V", "W", "X", "Y", "Z",
     "0", "1", "2", "3", "4", "5", "6", "7", "8", "9", "_"}

\* The command words of the regular expression at line 89
RawWords ==
    {<<"l", "s">>, <<"c", "d">>, <<"g", "i", "t">>, <<"c", "a", "t">>,
     <<"p", "w", "d">>, <<"m", "k", "d", "i", "r">>, <<"p", "i", "p">>,
     <<"n", "p", "m">>, <<"p", "y", "t", "h", "o", "n">>, <<"n", "o", "d", "e">>,
     <<"e", "c", "h", "o">>, <<"g", "r", "e", "p">>, <<"f", "i", "n", "d">>,
     <<"r", "m">>, <<"c", "p">>, <<"m", "v">>}

\* /^(ls|cd|...|mv)\b/.test(text): one of the words at the start, followed
\* by the end of the text or by a character that is not a word character.
LooksRaw(text) ==
    \E w \in RawWords :
        /\ StartsWith(text, w)
        /\ (Len(text) = Len(w) \/ text[Len(w) + 1] \notin WordChars)

\* An approve / cancel block that is always rendered.
AlwaysVisible == TRUE

\* The approve / cancel block is rendered only for a truthy pending (line 116).
ApproveVisible == Truthy(pending)

\* Responses of POST /terminal/run: a rejected fetch, or a JSON body.
RunFail == [net |-> "fail", error |-> <<>>, stdout |-> <<>>, stderr |-> <<>>]
RunError == [net |-> "ok", error |-> <<"E">>, stdout |-> <<>>, stderr |-> <<>>]
RunOut == [net |-> "ok", error |-> <<>>, stdout |-> <<"o", "\n">>, stderr |-> <<>>]
\* Responses of POST /terminal/ai
AIFail == [net |-> "fail", error |-> <<>>, command |-> <<>>]
AIError == [net |-> "ok", error |-> <<"E">>, command |-> <<>>]
AISuggest(c) == [net |-> "ok", error |-> <<>>, command |-> c]

NetworkErrorLine == [type |-> "err", text |-> <<"Network error: ", "failed">>]

\* useState values of FilesPanel (lines 4-19 of part_000); the tree browser
\* (lines 5-7, 23-51) is left out.
FilesInit ==
    [view |-> "browser",
     editorPath |-> "", editorContent |-> "", editorLoading |-> FALSE, editorMsg |-> Null,
     aiPath |-> "", aiInstruction |-> "", aiPreview |-> Null, aiOriginal |-> Null,
     aiLoading |-> FALSE, aiMsg |-> Null]

TypeOK ==
    /\ activeTab \in Tabs
    /\ isAnalyzing \in BOOLEAN
    /\ Len(summary) <= 1
    /\ Len(analyzeProgress) <= 1
    /\ mode \in {"ai", "raw"}
    /\ loading \in BOOLEAN
    /\ Len(pending) <= 1

Init ==
    /\ activeTab = "chat"
    /\ messages = <<Welcome>>
    /\ analysisResults = <<>>
    /\ summary = Null
    /\ isAnalyzing = FALSE
    /\ analyzeProgress = Null
    /\ streams = <<>>
    /\ history = <<InfoLine>>
    /\ input = <<>>
    /\ cwd = InitialCwd
    /\ mode = "ai"
    /\ pending = Null
    /\ loading = FALSE
    /\ tasks = {}
    /\ nOps = 0
    /\ reqs = <<>>
    /\ gate = <<>>
    /\ files = FilesInit
    /\ ftasks = {}
    /\ freqs = <<>>

\* ------------------------------------------------------------ App actions
\* runAnalysis without setSummary(null).
SendChatAnalyzeKeepsSummary(repo) ==
    /\ messages' = messages \o <<UserMsg(<<"analyze", repo>>),
                                 AssistantMsg(<<"starting", repo>>)>>
    /\ activeTab' = "results"
    /\ isAnalyzing' = TRUE
    /\ analysisResults' = <<>>
    /\ UNCHANGED summary
    /\ analyzeProgress' = Some(ProgressZero)
    /\ streams' = Append(streams,
           [repo |-> repo, sumClosure |-> summary, pc |-> "fetch",
            wire |-> <<>>, buffer |-> <<>>, kept |-> <<>>,
            script |-> <<>>, dispatched |-> <<>>, cuts |-> {},
            started |-> AppState', requests |-> 1, tail |-> Null])
    /\ UNCHANGED <<termVars, fileVars>>

\* sendChat(userText) for a text in which parseRepo finds `repo`, with the
\* synchronous head of runAnalysis (lines 61-64, up to the await of fetch).
SendChatAnalyze(repo) ==
    /\ messages' = messages \o <<UserMsg(<<"analyze", repo>>),
                                 AssistantMsg(<<"starting", repo>>)>>
    /\ activeTab' = "results"
    /\ isAnalyzing' = TRUE
    /\ analysisResults' = <<>>
    /\ summary' = Null
    /\ analyzeProgress' = Some(ProgressZero)
    /\ streams' = Append(streams,
           [repo |-> repo, sumClosure |-> summary, pc |-> "fetch",
            wire |-> <<>>, buffer |-> <<>>, kept |-> <<>>,
            script |-> <<>>, dispatched |-> <<>>, cuts |-> {},
            started |-> AppState', requests |-> 1, tail |-> Null])
    /\ UNCHANGED <<termVars, fileVars>>

\* The response of POST /analyze arrives; its body will carry `script`.
FetchOk(i, script) ==
    /\ streams[i].pc = "fetch"
    /\ streams' = [streams EXCEPT ![i].pc = "reading",
                                  ![i].wire = BodyBytes(script),
                                  ![i].script = script]
    /\ UNCHANGED <<activeTab, messages, analysisResults, summary, isAnalyzing,
                   analyzeProgress>>
    /\ UNCHANGED <<termVars, fileVars>>

\* The body ends without a final newline: its last line is an unterminated
\* fragment (kept in `tail` for the record).
FetchOkTail(i, script) ==
    /\ streams[i].pc = "fetch"
    /\ script # <<>>
    /\ streams' = [streams EXCEPT ![i].pc = "reading",
                                  ![i].wire = Front(BodyBytes(script)),
                                  ![i].script = Front(script),
                                  ![i].tail = Some(Last(script))]
    /\ UNCHANGED <<activeTab, messages, analysisResults, summary, isAnalyzing,
                   analyzeProgress>>
    /\ UNCHANGED <<termVars, fileVars>>

\* `Analysis failed: ${e.message}` (line 92)
FailedMsg == AssistantMsg(<<"failed", "net">>)

\* A runAnalysis that reports the failed fetch and sends the request again.
FetchFailRetry(i) ==
    /\ streams[i].pc = "fetch"
    /\ streams[i].requests = 1
    /\ streams' = [streams EXCEPT ![i].requests = 2]
    /\ messages' = Append(messages, FailedMsg)
    /\ UNCHANGED <<activeTab, analysisResults, summary, isAnalyzing, analyzeProgress>>
    /\ UNCHANGED <<termVars, fileVars>>

\* The fetch of POST /analyze rejects: catch (lines 91-92), finally (93-96).
FetchFail(i) ==
    /\ streams[i].pc = "fetch"
    /\ streams' = [streams EXCEPT ![i].pc = "failed"]
    /\ messages' = Append(messages, FailedMsg)
    /\ isAnalyzing' = FALSE
    /\ analyzeProgress' = Null
    /\ UNCHANGED <<activeTab, analysisResults, summary>>
    /\ UNCHANGED <<termVars, fileVars>>

\* reader.read() rejects: catch (lines 91-92), finally (93-96).
ReadFail(i) ==
    /\ streams[i].pc = "reading"
    /\ streams' = [streams EXCEPT ![i].pc = "failed"]
    /\ messages' = Append(messages, FailedMsg)
    /\ isAnalyzing' = FALSE
    /\ analyzeProgress' = Null
    /\ UNCHANGED <<activeTab, analysisResults, summary>>
    /\ UNCHANGED <<termVars, fileVars>>

\* Where a chunk ended, from what the pass leaves behind: inside the marker,
\* inside a payload, inside a multi-byte character (history only).
CutPlace(rest, keptBytes) ==
    (IF rest # <<>> /\ Len(rest) < MarkerLen THEN {"marker"} ELSE {})
    \cup (IF Len(rest) >= MarkerLen THEN {"payload"} ELSE {})
    \cup (IF keptBytes # <<>> THEN {"char"} ELSE {})

\* One pass of the while loop: reader.read() yields the next k bytes.
\* [wire, kept, buffer, lines]: the locals after decode, split and pop.
ChunkLocals(s, k) ==
    LET dec == TextDecode(s.kept, SubSeq(s.wire, 1, k))
        lines == SplitLines(s.buffer \o dec[1])
    IN [wire |-> Slice(s.wire, k), kept |-> dec[2],
        buffer |-> Last(lines), lines |-> Front(lines)]

ReadChunk(i, k) ==
    /\ streams[i].pc = "reading"
    /\ k \in 1..Len(streams[i].wire)
    /\ \E loc \in {ChunkLocals(streams[i], k)} :
         \E r \in {ProcessLines([st |-> AppState, dispatched |-> streams[i].dispatched],
                                loc.lines, streams[i].repo, streams[i].sumClosure)} :
          /\ streams' = [streams EXCEPT
                            ![i].wire = loc.wire,
                            ![i].kept = loc.kept,
                            ![i].buffer = loc.buffer,
                            ![i].dispatched = r.dispatched,
                            ![i].cuts = @ \cup CutPlace(loc.buffer, loc.kept)]
          /\ messages' = r.st.messages
          /\ analysisResults' = r.st.analysisResults
          /\ summary' = r.st.summary
          /\ analyzeProgress' = r.st.analyzeProgress
          /\ activeTab' = r.st.activeTab
    /\ UNCHANGED isAnalyzing
    /\ UNCHANGED <<termVars, fileVars>>

\* A loop that, at the end of the stream, treats what is left in the buffer
\* as a last line.
ReadDoneFlush(i) ==
    /\ streams[i].pc = "reading"
    /\ streams[i].wire = <<>>
    /\ \E r \in {ProcessLines([st |-> AppState, dispatched |-> streams[i].dispatched],
                               <<streams[i].buffer>>, streams[i].repo,
                               streams[i].sumClosure)} :
          /\ streams' = [streams EXCEPT ![i].pc = "ended",
                                        ![i].dispatched = r.dispatched]
          /\ messages' = r.st.messages
          /\ analysisResults' = r.st.analysisResults
          /\ summary' = r.st.summary
          /\ activeTab' = r.st.activeTab
    /\ isAnalyzing' = FALSE
    /\ analyzeProgress' = Null
    /\ UNCHANGED <<termVars, fileVars>>

\* reader.read() reports done: break, then the finally block (lines 93-96).
ReadDone(i) ==
    /\ streams[i].pc = "reading"
    /\ streams[i].wire = <<>>
    /\ streams' = [streams EXCEPT ![i].pc = "ended"]
    /\ isAnalyzing' = FALSE
    /\ analyzeProgress' = Null
    /\ UNCHANGED <<activeTab, messages, analysisResults, summary>>
    /\ UNCHANGED <<termVars, fileVars>>

\* Chunk ends that fall right after a newline of the unread body.
LineEnds(wire) == {k \in 1..Len(wire) : wire[k] = NL}

\* The first analysis after the page is loaded, consumed to its end; the
\* chunks end at line ends (any number of lines per chunk).  Cuts inside a
\* line are the subject of SpecDecode.
Next ==
    \/ \E repo \in Repos : streams = <<>> /\ SendChatAnalyze(repo)
    \/ \E i \in DOMAIN streams :
           streams[i].pc = "fetch" /\ \E script \in Scripts : FetchOk(i, script)
    \/ \E i \in DOMAIN streams : \E k \in LineEnds(streams[i].wire) : ReadChunk(i, k)
    \/ \E i \in DOMAIN streams : ReadDone(i)

Spec == Init /\ [][Next]_vars

\* The decode loop over bodies of well-formed frames cut at every byte.
NextDecode ==
    \/ \E repo \in Repos : streams = <<>> /\ SendChatAnalyze(repo)
    \/ \E i \in DOMAIN streams :
           streams[i].pc = "fetch" /\ \E script \in DecodeScripts : FetchOk(i, script)
    \/ \E i \in DOMAIN streams : \E k \in 1..Len(streams[i].wire) : ReadChunk(i, k)
    \/ \E i \in DOMAIN streams : ReadDone(i)

SpecDecode == Init /\ [][NextDecode]_vars

\* Bodies of well-formed lines whose last line has no newline, cut at every
\* byte.
NextTail ==
    \/ \E repo \in Repos : streams = <<>> /\ SendChatAnalyze(repo)
    \/ \E i \in DOMAIN streams :
           streams[i].pc = "fetch" /\ \E script \in DecodeScripts : FetchOkTail(i, script)
    \/ \E i \in DOMAIN streams : \E k \in 1..Len(streams[i].wire) : ReadChunk(i, k)
    \/ \E i \in DOMAIN streams : ReadDone(i)

SpecTail == Init /\ [][NextTail]_vars

\* Analyses started one after the other or while an earlier one is still
\* being read (sendChat has no guard), with transport failures.
MaxRuns == 2

SessionScripts ==
    {<<FrameLine(EvF1), FrameLine(EvS)>>,
     <<FrameLine(EvS), FrameLine(EvD)>>,
     <<FrameLine(EvD)>>,
     <<FrameLine(EvP1), FrameLine(EvF2)>>}

NextSession ==
    \/ \E repo \in Repos : Len(streams) < MaxRuns /\ SendChatAnalyze(repo)
    \/ \E i \in DOMAIN streams :
           streams[i].pc = "fetch" /\ \E script \in SessionScripts : FetchOk(i, script)
    \/ \E i \in DOMAIN streams : FetchFail(i)
    \/ \E i \in DOMAIN streams : \E k \in LineEnds(streams[i].wire) : ReadChunk(i, k)
    \/ \E i \in DOMAIN streams : ReadFail(i)
    \/ \E i \in DOMAIN streams : ReadDone(i)

SpecSession == Init /\ [][NextSession]_vars


\* ------------------------------------------------------ terminal actions
AddLine(h, type, text) == Append(h, [type |-> type, text |-> text])

\* An entry of the gate history: the operation, the command proposed, and
\* the number of requests sent before and after it.
GateEvent(op, cmd, before, at) == [op |-> op, cmd |-> cmd, before |-> before, at |-> at]

\* runCommand without setLoading(true).
StartRunNoLoading(cmd) ==
    /\ history' = AddLine(history, "cmd", <<"$ ">> \o Template(cmd))
    /\ UNCHANGED loading
    /\ reqs' = Append(reqs, [url |-> "run", text |-> cmd, cwd |-> cwd, dry_run |-> Null])
    /\ tasks' = tasks \cup {[id |-> nOps + 1, pc |-> "exec", cmd |-> cmd, cwd |-> cwd,
                              data |-> Null]}
    /\ nOps' = nOps + 1

\* The synchronous head of runCommand(cmd), lines 23-30: echo, loading, and
\* the request with the cwd of the calling render.
StartRun(cmd) ==
    /\ history' = AddLine(history, "cmd", <<"$ ">> \o Template(cmd))
    /\ loading' = TRUE
    /\ reqs' = Append(reqs, [url |-> "run", text |-> cmd, cwd |-> cwd, dry_run |-> Null])
    /\ tasks' = tasks \cup {[id |-> nOps + 1, pc |-> "exec", cmd |-> cmd, cwd |-> cwd,
                              data |-> Null]}
    /\ nOps' = nOps + 1

\* askAI without setLoading(true): submissions stay possible while the
\* suggestion request is outstanding.
StartAskAINoLoading(prompt) ==
    /\ history' = AddLine(history, "ai-prompt", <<"AI ">> \o prompt)
    /\ UNCHANGED loading
    /\ reqs' = Append(reqs, [url |-> "ai", text |-> Some(prompt), cwd |-> cwd,
                             dry_run |-> Some(TRUE)])
    /\ tasks' = tasks \cup {[id |-> nOps + 1, pc |-> "ai", cmd |-> Some(prompt), cwd |-> cwd,
                              data |-> Null]}
    /\ nOps' = nOps + 1

\* The synchronous head of askAI(prompt), lines 55-62.
StartAskAI(prompt) ==
    /\ history' = AddLine(history, "ai-prompt", <<"AI ">> \o prompt)
    /\ loading' = TRUE
    /\ reqs' = Append(reqs, [url |-> "ai", text |-> Some(prompt), cwd |-> cwd,
                             dry_run |-> Some(TRUE)])
    /\ tasks' = tasks \cup {[id |-> nOps + 1, pc |-> "ai", cmd |-> Some(prompt), cwd |-> cwd,
                              data |-> Null]}
    /\ nOps' = nOps + 1

\* onChange of the input (disabled while loading, line 145).
TypeInput(t) ==
    /\ ~loading
    /\ input' = t
    /\ UNCHANGED <<history, cwd, mode, pending, loading, tasks, nOps, reqs, gate>>
    /\ UNCHANGED <<appVars, fileVars>>

\* The mode buttons (lines 104-105).
SetMode(m) ==
    /\ mode' = m
    /\ UNCHANGED <<history, input, cwd, pending, loading, tasks, nOps, reqs, gate>>
    /\ UNCHANGED <<appVars, fileVars>>

\* A quick-command button (line 128).
QuickCmd(q) ==
    /\ mode' = "raw"
    /\ input' = q
    /\ UNCHANGED <<history, cwd, pending, loading, tasks, nOps, reqs, gate>>
    /\ UNCHANGED <<appVars, fileVars>>

\* handleSubmit without the `loading` test of line 82.
HandleSubmitWhileLoading ==
    LET text == Trim(input) IN
    IF text = <<>>
    THEN UNCHANGED vars
    ELSE /\ input' = <<>>
         /\ pending' = Null
         /\ IF mode = "raw" \/ LooksRaw(text)
            THEN StartRun(Some(text))
            ELSE StartAskAI(text)
         /\ UNCHANGED <<cwd, mode, gate>>
         /\ UNCHANGED <<appVars, fileVars>>

\* handleSubmit that asks the AI in AI mode whatever the text looks like.
HandleSubmitAlwaysAI ==
    LET text == Trim(input) IN
    IF text = <<>> \/ loading
    THEN UNCHANGED vars
    ELSE /\ input' = <<>>
         /\ pending' = Null
         /\ IF mode = "raw"
            THEN StartRun(Some(text))
            ELSE StartAskAI(text)
         /\ UNCHANGED <<cwd, mode, gate>>
         /\ UNCHANGED <<appVars, fileVars>>

\* handleSubmit without setPending(null): the proposal survives the
\* submission.
HandleSubmitKeepsPending ==
    LET text == Trim(input) IN
    IF text = <<>> \/ loading
    THEN UNCHANGED vars
    ELSE /\ input' = <<>>
         /\ IF mode = "raw" \/ LooksRaw(text)
            THEN StartRun(Some(text))
            ELSE StartAskAI(text)
         /\ UNCHANGED <<cwd, mode, pending, gate>>
         /\ UNCHANGED <<appVars, fileVars>>

\* handleSubmit (lines 80-93), from the Run button or the Enter key.
HandleSubmit ==
    LET text == Trim(input) IN
    IF text = <<>> \/ loading
    THEN UNCHANGED vars
    ELSE /\ input' = <<>>
         /\ pending' = Null
         /\ IF mode = "raw" \/ LooksRaw(text)
            THEN StartRun(Some(text))
            ELSE StartAskAI(text)
         /\ UNCHANGED <<cwd, mode, gate>>
         /\ UNCHANGED <<appVars, fileVars>>

\* approvePending without setPending(null): the proposal stays pending.
ApprovePendingKeeps ==
    /\ ApproveVisible
    /\ StartRun(pending)
    /\ gate' = Append(gate, GateEvent("approve", <<>>, Len(reqs), Len(reqs')))
    /\ UNCHANGED <<input, cwd, mode, pending>>
    /\ UNCHANGED <<appVars, fileVars>>

\* approvePending (lines 74-78), from the Run button of the approve block.
ApprovePending ==
    /\ ApproveVisible
    /\ pending' = Null
    /\ StartRun(pending)
    /\ gate' = Append(gate, GateEvent("approve", <<>>, Len(reqs), Len(reqs')))
    /\ UNCHANGED <<input, cwd, mode>>
    /\ UNCHANGED <<appVars, fileVars>>

\* A Cancel button that leaves the proposal pending.
CancelPendingKeeps ==
    /\ ApproveVisible
    /\ gate' = Append(gate, GateEvent("cancel", <<>>, Len(reqs), Len(reqs)))
    /\ UNCHANGED <<history, input, cwd, mode, pending, loading, tasks, nOps, reqs>>
    /\ UNCHANGED <<appVars, fileVars>>

\* The Cancel button of the approve block (line 120).
CancelPending ==
    /\ ApproveVisible
    /\ pending' = Null
    /\ gate' = Append(gate, GateEvent("cancel", <<>>, Len(reqs), Len(reqs)))
    /\ UNCHANGED <<history, input, cwd, mode, loading, tasks, nOps, reqs>>
    /\ UNCHANGED <<appVars, fileVars>>

\* The lines runCommand adds for a body without error (lines 33-34).
OutputLines(h, resp) ==
    LET h1 == IF resp.stdout # <<>> THEN AddLine(h, "out", TrimEnd(resp.stdout)) ELSE h
    IN IF resp.stderr # <<>> THEN AddLine(h1, "err", TrimEnd(resp.stderr)) ELSE h1

CdPrefix == <<"c", "d", " ">>
CdPrefixLen == 3

\* The cwd of the resolution request (line 42).
ResolveCwd(dir, base) == IF StartsWith(dir, <<"/">>) THEN dir ELSE base \o <<"/">> \o dir

\* runCommand without the `return` of line 32: an error response is shown
\* and the command is then treated like a successful one.
RunRespNoReturn(t, resp) ==
    /\ t \in tasks
    /\ t.pc = "exec"
    /\ resp.net = "ok"
    /\ t.cmd # Null
    /\ LET h == IF resp.error # <<>> THEN AddLine(history, "err", resp.error) ELSE history
       IN IF StartsWith(t.cmd[1], CdPrefix)
          THEN /\ history' = OutputLines(h, resp)
               /\ reqs' = Append(reqs,
                      [url |-> "run", text |-> Some(TxtPwd),
                       cwd |-> ResolveCwd(Trim(Slice(t.cmd[1], CdPrefixLen)), t.cwd),
                       dry_run |-> Null])
               /\ tasks' = (tasks \ {t}) \cup {[t EXCEPT !.pc = "resolve", !.data = Some(resp)]}
               /\ UNCHANGED loading
          ELSE /\ history' = OutputLines(h, resp)
               /\ loading' = FALSE
               /\ tasks' = tasks \ {t}
               /\ UNCHANGED reqs
    /\ UNCHANGED <<input, cwd, mode, pending, nOps, gate>>
    /\ UNCHANGED <<appVars, fileVars>>

\* runCommand after the await of the first fetch (lines 31-46, 47-51).
\* cmd.startsWith on a null cmd throws inside the try: the catch branch.
RunResp(t, resp) ==
    /\ t \in tasks
    /\ t.pc = "exec"
    /\ IF resp.net = "fail"
       THEN /\ history' = Append(history, NetworkErrorLine)
            /\ loading' = FALSE
            /\ tasks' = tasks \ {t}
            /\ UNCHANGED reqs
       ELSE IF resp.error # <<>>
       THEN /\ history' = AddLine(history, "err", resp.error)
            /\ loading' = FALSE
            /\ tasks' = tasks \ {t}
            /\ UNCHANGED reqs
       ELSE IF t.cmd = Null
       THEN /\ history' = Append(OutputLines(history, resp), NetworkErrorLine)
            /\ loading' = FALSE
            /\ tasks' = tasks \ {t}
            /\ UNCHANGED reqs
       ELSE IF StartsWith(t.cmd[1], CdPrefix)
       THEN /\ history' = OutputLines(history, resp)
            /\ reqs' = Append(reqs,
                   [url |-> "run", text |-> Some(TxtPwd),
                    cwd |-> ResolveCwd(Trim(Slice(t.cmd[1], CdPrefixLen)), t.cwd),
                    dry_run |-> Null])
            /\ tasks' = (tasks \ {t}) \cup {[t EXCEPT !.pc = "resolve", !.data = Some(resp)]}
            /\ UNCHANGED loading
       ELSE /\ history' = OutputLines(history, resp)
            /\ loading' = FALSE
            /\ tasks' = tasks \ {t}
            /\ UNCHANGED reqs
    /\ UNCHANGED <<input, cwd, mode, pending, nOps, gate>>
    /\ UNCHANGED <<appVars, fileVars>>

\* runCommand with setLoading(false) at the end of the try block instead of
\* the finally block: a rejected resolution fetch skips it.
ResolveRespNoFinally(t, resp) ==
    /\ t \in tasks
    /\ t.pc = "resolve"
    /\ IF resp.net = "fail"
       THEN history' = Append(history, NetworkErrorLine) /\ UNCHANGED <<cwd, loading>>
       ELSE IF resp.stdout # <<>>
       THEN cwd' = Trim(resp.stdout) /\ loading' = FALSE /\ UNCHANGED history
       ELSE loading' = FALSE /\ UNCHANGED <<cwd, history>>
    /\ tasks' = tasks \ {t}
    /\ UNCHANGED <<input, mode, pending, nOps, reqs, gate>>
    /\ UNCHANGED <<appVars, fileVars>>

\* runCommand after the await of the resolution fetch (lines 44-45, 47-51).
ResolveResp(t, resp) ==
    /\ t \in tasks
    /\ t.pc = "resolve"
    /\ IF resp.net = "fail"
       THEN history' = Append(history, NetworkErrorLine) /\ UNCHANGED cwd
       ELSE IF resp.stdout # <<>>
       THEN cwd' = Trim(resp.stdout) /\ UNCHANGED history
       ELSE UNCHANGED <<cwd, history>>
    /\ loading' = FALSE
    /\ tasks' = tasks \ {t}
    /\ UNCHANGED <<input, mode, pending, nOps, reqs, gate>>
    /\ UNCHANGED <<appVars, fileVars>>

\* An askAI that runs the suggested command itself instead of proposing it.
AIRespAutoRun(t, resp) ==
    /\ t \in tasks
    /\ t.pc = "ai"
    /\ resp.net = "ok"
    /\ resp.error = <<>>
    /\ history' = AddLine(AddLine(history, "ai-suggest", <<"Suggested: ">> \o resp.command),
                          "cmd", <<"$ ">> \o resp.command)
    /\ reqs' = Append(reqs, [url |-> "run", text |-> Some(resp.command), cwd |-> t.cwd,
                             dry_run |-> Null])
    /\ tasks' = (tasks \ {t}) \cup {[t EXCEPT !.pc = "exec", !.cmd = Some(resp.command)]}
    /\ UNCHANGED <<input, cwd, mode, pending, loading, nOps, gate>>
    /\ UNCHANGED <<appVars, fileVars>>

\* askAI after the await (lines 63-66, 67-71).
AIResp(t, resp) ==
    /\ t \in tasks
    /\ t.pc = "ai"
    /\ IF resp.net = "fail"
       THEN /\ history' = Append(history, NetworkErrorLine)
            /\ UNCHANGED <<pending, gate>>
       ELSE IF resp.error # <<>>
       THEN /\ history' = AddLine(history, "err", resp.error)
            /\ UNCHANGED <<pending, gate>>
       ELSE /\ pending' = Some(resp.command)
            /\ history' = AddLine(history, "ai-suggest", <<"Suggested: ">> \o resp.command)
            /\ gate' = Append(gate, GateEvent("propose", resp.command,
                                               Len(reqs), Len(reqs)))
    /\ loading' = FALSE
    /\ tasks' = tasks \ {t}
    /\ UNCHANGED <<input, cwd, mode, nOps, reqs>>
    /\ UNCHANGED <<appVars, fileVars>>

\* ---- the approval gate: natural-language prompts, two suggestions
GateTexts == {TxtHi}
GateCmds == {CmdA, CmdB}
\* "pwd", one of QUICK_CMDS (line 4)
GateQuickCmds == {TxtPwd}
GateRunResps == {RunOut, RunError}
GateAIResps == {AISuggest(c) : c \in GateCmds} \cup {AIError}

NextGate ==
    \/ \E t \in GateTexts : TypeInput(t)
    \/ \E m \in {"ai", "raw"} : SetMode(m)
    \/ \E q \in GateQuickCmds : QuickCmd(q)
    \/ nOps < MaxOps /\ HandleSubmit
    \/ nOps < MaxOps /\ ApprovePending
    \/ CancelPending
    \/ \E t \in tasks, resp \in GateRunResps : RunResp(t, resp)
    \/ \E t \in tasks, resp \in GateAIResps : AIResp(t, resp)

SpecGate == Init /\ [][NextGate]_vars

\* ---- the terminal session: submissions of every kind, cd, failures
MaxCmds == 2

TxtBlank == <<" ">>
TxtCd == <<"c", "d", " ", "x">>
TxtLsx == <<"l", "s", "x">>
TermTexts == {TxtHi, TxtBlank, TxtCd, TxtLsx}

\* Responses of the resolution request: the directory, or no output.
ResolveOut == [net |-> "ok", error |-> <<>>, stdout |-> <<"/", "w", "/", "x", "\n">>,
               stderr |-> <<>>]
ResolveNone == [net |-> "ok", error |-> <<>>, stdout |-> <<>>, stderr |-> <<"E">>]

TermRunResps == {RunOut, RunError, RunFail}
TermResolveResps == {ResolveOut, ResolveNone, RunError, RunFail}
TermAIResps == {AISuggest(CmdA), AIError, AIFail}

NextTerm ==
    \/ \E t \in TermTexts : TypeInput(t)
    \/ \E m \in {"ai", "raw"} : SetMode(m)
    \/ \E q \in GateQuickCmds : QuickCmd(q)
    \/ nOps < MaxCmds /\ HandleSubmit
    \/ nOps < MaxCmds /\ ApprovePending
    \/ CancelPending
    \/ \E t \in tasks, resp \in TermRunResps : RunResp(t, resp)
    \/ \E t \in tasks, resp \in TermResolveResps : ResolveResp(t, resp)
    \/ \E t \in tasks, resp \in TermAIResps : AIResp(t, resp)

SpecTerm == Init /\ [][NextTerm]_vars

\* The same session when every request is settled: the continuation after
\* an await runs once its fetch has resolved or rejected.
RunSettles == \E t \in tasks, resp \in TermRunResps : RunResp(t, resp)
ResolveSettles == \E t \in tasks, resp \in TermResolveResps : ResolveResp(t, resp)
AISettles == \E t \in tasks, resp \in TermAIResps : AIResp(t, resp)

SpecTermLive ==
    /\ SpecTerm
    /\ WF_vars(RunSettles)
    /\ WF_vars(ResolveSettles)
    /\ WF_vars(AISettles)

\* ---- proposals and the working directory: cd commands typed or
\* suggested, prompts, approvals
CwdTexts == {TxtHi, TxtCd}
CwdCmds == {CmdA, TxtCd}
CwdRunResps == {RunOut, RunError}
CwdResolveResps == {ResolveOut, ResolveNone}
CwdAIResps == {AISuggest(c) : c \in CwdCmds} \cup {AIError}

NextCwd ==
    \/ \E t \in CwdTexts : TypeInput(t)
    \/ nOps < MaxOps /\ HandleSubmit
    \/ nOps < MaxOps /\ ApprovePending
    \/ CancelPending
    \/ \E t \in tasks, resp \in CwdRunResps : RunResp(t, resp)
    \/ \E t \in tasks, resp \in CwdResolveResps : ResolveResp(t, resp)
    \/ \E t \in tasks, resp \in CwdAIResps : AIResp(t, resp)

SpecCwd == Init /\ [][NextCwd]_vars

\* ------------------------------------------------- FilesPanel actions
\* File paths and contents are opaque strings; "" is the empty input.
FilePaths == {"", "/w/a.py"}
Instructions == {"", "do"}

\* A response of a file endpoint: a rejected fetch, an error body, or data.
FileFail == [net |-> "fail", error |-> "", content |-> "", original |-> ""]
FileError == [net |-> "ok", error |-> "E", content |-> "", original |-> ""]
FileData == [net |-> "ok", error |-> "", content |-> "c", original |-> "o"]
FileResps == {FileFail, FileError, FileData}

ErrMsg(text) == Some([type |-> "err", text |-> text])
OkMsg(text) == Some([type |-> "ok", text |-> text])

\* fetch(`${backendUrl}/file/...`) with the body's path.
FileRequest(url, path) ==
    /\ freqs' = Append(freqs, [url |-> url, path |-> path])
    /\ ftasks' = ftasks \cup {[id |-> Len(freqs) + 1, url |-> url, path |-> path]}

OtherVars == <<appVars, termVars>>

\* The three view buttons (lines 163-165).
SetView(v) ==
    /\ files' = [files EXCEPT !.view = v]
    /\ UNCHANGED <<ftasks, freqs, OtherVars>>

\* onChange of the editor's path input (line 204).
SetEditorPath(path) ==
    /\ files.view = "editor"
    /\ files' = [files EXCEPT !.editorPath = path]
    /\ UNCHANGED <<ftasks, freqs, OtherVars>>

\* The Load button (line 207, disabled only while editorLoading) and
\* loadFile(editorPath) up to the await (lines 55-63).
LoadFile ==
    /\ files.view = "editor"
    /\ ~files.editorLoading
    /\ files' = [files EXCEPT !.editorLoading = TRUE, !.editorMsg = Null]
    /\ FileRequest("read", files.editorPath)
    /\ UNCHANGED OtherVars

\* The Save button (line 218) and saveFile up to the await (lines 74-82).
SaveFile ==
    /\ files.view = "editor"
    /\ ~(files.editorLoading \/ files.editorPath = "")
    /\ files' = [files EXCEPT !.editorLoading = TRUE, !.editorMsg = Null]
    /\ FileRequest("write", files.editorPath)
    /\ UNCHANGED OtherVars

\* The Delete button (line 221) and deleteFile up to the await (lines
\* 93-101); confirmed tells what confirm() returned.
DeleteFile(confirmed) ==
    /\ files.view = "editor"
    /\ ~(files.editorLoading \/ files.editorPath = "")
    /\ IF confirmed
       THEN /\ files' = [files EXCEPT !.editorLoading = TRUE]
            /\ FileRequest("delete", files.editorPath)
       ELSE UNCHANGED <<files, ftasks, freqs>>
    /\ UNCHANGED OtherVars

\* loadFile, saveFile and deleteFile after the await (lines 64-71, 83-90,
\* 102-111).
EditorResp(t, resp) ==
    /\ t \in ftasks
    /\ t.url \in {"read", "write", "delete"}
    /\ ftasks' = ftasks \ {t}
    /\ LET f == [files EXCEPT !.editorLoading = FALSE] IN
       IF resp.net = "fail" THEN files' = [f EXCEPT !.editorMsg = ErrMsg("failed")]
       ELSE IF resp.error # "" THEN files' = [f EXCEPT !.editorMsg = ErrMsg(resp.error)]
       ELSE IF t.url = "read" THEN files' = [f EXCEPT !.editorContent = resp.content]
       ELSE IF t.url = "write" THEN files' = [f EXCEPT !.editorMsg = OkMsg("saved")]
       ELSE files' = [f EXCEPT !.editorMsg = OkMsg("deleted"),
                               !.editorContent = "", !.editorPath = ""]
    /\ UNCHANGED <<freqs, OtherVars>>

\* The "AI Edit this file" button (line 224).
AIEditThisFile ==
    /\ files.view = "editor"
    /\ files' = [files EXCEPT !.aiPath = files.editorPath, !.view = "ai-write"]
    /\ UNCHANGED <<ftasks, freqs, OtherVars>>

\* onChange of the AI writer's inputs (lines 239, 248).
SetAiPath(path) ==
    /\ files.view = "ai-write"
    /\ files' = [files EXCEPT !.aiPath = path]
    /\ UNCHANGED <<ftasks, freqs, OtherVars>>

SetAiInstruction(text) ==
    /\ files.view = "ai-write"
    /\ files' = [files EXCEPT !.aiInstruction = text]
    /\ UNCHANGED <<ftasks, freqs, OtherVars>>

\* generateAI up to the await (lines 116-127); the button is disabled while
\* aiLoading (line 253).
GenerateAI ==
    /\ files.view = "ai-write"
    /\ ~files.aiLoading
    /\ IF files.aiPath = "" \/ files.aiInstruction = ""
       THEN UNCHANGED <<files, ftasks, freqs>>
       ELSE /\ files' = [files EXCEPT !.aiLoading = TRUE, !.aiPreview = Null,
                                      !.aiOriginal = Null, !.aiMsg = Null]
            /\ FileRequest("ai-preview", files.aiPath)
    /\ UNCHANGED OtherVars

\* The Apply button (lines 259-266, rendered for a truthy aiPreview) and
\* applyAI up to the await (lines 139-146).
ApplyAI ==
    /\ files.view = "ai-write"
    /\ files.aiPreview # Null
    /\ files.aiPreview # Some("")
    /\ ~files.aiLoading
    /\ files' = [files EXCEPT !.aiLoading = TRUE]
    /\ FileRequest("ai-apply", files.aiPath)
    /\ UNCHANGED OtherVars

\* The Discard button (line 267).
DiscardAI ==
    /\ files.view = "ai-write"
    /\ files.aiPreview # Null
    /\ files.aiPreview # Some("")
    /\ files' = [files EXCEPT !.aiPreview = Null]
    /\ UNCHANGED <<ftasks, freqs, OtherVars>>

\* generateAI and applyAI after the await (lines 128-136, 147-155).
AIWriteResp(t, resp) ==
    /\ t \in ftasks
    /\ t.url \in {"ai-preview", "ai-apply"}
    /\ ftasks' = ftasks \ {t}
    /\ LET f == [files EXCEPT !.aiLoading = FALSE] IN
       IF resp.net = "fail" THEN files' = [f EXCEPT !.aiMsg = ErrMsg("failed")]
       ELSE IF resp.error # "" THEN files' = [f EXCEPT !.aiMsg = ErrMsg(resp.error)]
       ELSE IF t.url = "ai-preview"
       THEN files' = [f EXCEPT !.aiPreview = Some(resp.content),
                               !.aiOriginal = Some(resp.original)]
       ELSE files' = [f EXCEPT !.aiMsg = OkMsg("saved"), !.aiPreview = Null]
    /\ UNCHANGED <<freqs, OtherVars>>

\* File requests of one FilesPanel.
MaxFileReqs == 2

NextFiles ==
    \/ \E v \in {"browser", "editor", "ai-write"} : SetView(v)
    \/ \E path \in FilePaths : SetEditorPath(path)
    \/ Len(freqs) < MaxFileReqs /\ LoadFile
    \/ Len(freqs) < MaxFileReqs /\ SaveFile
    \/ \E confirmed \in BOOLEAN : Len(freqs) < MaxFileReqs /\ DeleteFile(confirmed)
    \/ \E t \in ftasks, resp \in FileResps : EditorResp(t, resp)
    \/ AIEditThisFile
    \/ \E path \in FilePaths : SetAiPath(path)
    \/ \E text \in Instructions : SetAiInstruction(text)
    \/ Len(freqs) < MaxFileReqs /\ GenerateAI
    \/ Len(freqs) < MaxFileReqs /\ ApplyAI
    \/ DiscardAI
    \/ \E t \in ftasks, resp \in FileResps : AIWriteResp(t, resp)

SpecFiles == Init /\ [][NextFiles]_vars

\* ------------------------------------------- properties: approval gate
IsProposal(e) == e.op = "propose"

\* Requests /terminal/run with command c among reqs[from+1 .. to].
RunsOf(c, from, to) ==
    Cardinality({k \in (from + 1)..to : reqs[k].url = "run" /\ reqs[k].text = Some(c)})

\* The requests counted for the gate event l end at the next proposal after
\* it, or now.
WindowEnd(l) ==
    LET later == {m \in (l + 1)..Len(gate) : IsProposal(gate[m])}
    IN IF later = {} THEN Len(reqs)
       ELSE gate[CHOOSE m \in later : \A n \in later : m <= n].at

SuggestedTexts == {Some(c) : c \in GateCmds}

\* C1: a command text that came from askAI reaches /terminal/run only through
\* an approve taken while that text is the pending proposal: every run
\* request with a suggested text is the request of an approve event that
\* directly follows the proposal of that text.  askAI itself sends only
\* dry-run requests.
C1_SuggestedRunsOnlyOnApprove ==
    \A k \in DOMAIN reqs :
        /\ reqs[k].url = "ai" => reqs[k].dry_run = Some(TRUE)
        /\ (reqs[k].url = "run" /\ reqs[k].text \in SuggestedTexts) =>
               \E l \in DOMAIN gate :
                   /\ l > 1
                   /\ gate[l].op = "approve"
                   /\ gate[l].at = k
                   /\ gate[l - 1].op = "propose"
                   /\ Some(gate[l - 1].cmd) = reqs[k].text

\* A suggestion was approved and its command sent to /terminal/run.
C1_Witness ==
    /\ Len(gate) >= 2
    /\ gate[1].op = "propose"
    /\ gate[2].op = "approve"
    /\ \E k \in DOMAIN reqs : reqs[k].url = "run" /\ reqs[k].text = Some(gate[1].cmd)
    /\ \E k \in DOMAIN reqs : reqs[k].url = "ai"

\* C2: propose(A), propose(B), approve() executes B exactly once and never
\* executes A: from the proposal of B to the next proposal there is exactly
\* one run request for B, and none for A since A was proposed.
C2_NewProposalOverwrites ==
    \A j \in 1..(Len(gate) - 2) :
        (/\ gate[j].op = "propose"
         /\ gate[j + 1].op = "propose"
         /\ gate[j + 2].op = "approve")
        => /\ RunsOf(gate[j + 1].cmd, gate[j + 1].at, WindowEnd(j + 2)) = 1
           /\ gate[j].cmd # gate[j + 1].cmd
                  => RunsOf(gate[j].cmd, gate[j].at, WindowEnd(j + 2)) = 0

\* A was proposed, then B, B was approved and its execution has finished.
C2_Witness ==
    /\ Len(gate) >= 3
    /\ gate[1] = GateEvent("propose", CmdA, 1, 1)
    /\ gate[2].op = "propose"
    /\ gate[2].cmd = CmdB
    /\ gate[3].op = "approve"
    /\ tasks = {}
    /\ RunsOf(CmdB, 0, Len(reqs)) = 1

\* C3: an approve executes the pending command exactly once and leaves the
\* gate without a proposal; there is no approve without a pending proposal.
\* Every approve event directly follows a proposal, sends exactly one
\* request, the run of the proposed command, and after an approve nothing is
\* pending until the next proposal.
C3_ApproveExactlyOnce ==
    /\ \A l \in DOMAIN gate :
          gate[l].op = "approve" =>
              /\ l > 1
              /\ gate[l - 1].op = "propose"
              /\ gate[l].at = gate[l].before + 1
              /\ reqs[gate[l].at].url = "run"
              /\ reqs[gate[l].at].text = Some(gate[l - 1].cmd)
    /\ (gate # <<>> /\ Last(gate).op = "approve") => (pending = Null /\ ~ApproveVisible)

\* An approved command has been executed and a further command was run
\* afterwards with nothing pending.
C3_Witness ==
    /\ Len(gate) = 2
    /\ gate[2].op = "approve"
    /\ pending = Null
    /\ Len(reqs) >= gate[2].at + 1
    /\ tasks = {}

\* C4: propose(A) then cancel() leaves no proposal and executes nothing: the
\* cancel sends no request, nothing is pending after it until the next
\* proposal, and no run request for A is sent before the next proposal.
C4_CancelExecutesNothing ==
    \A j \in 1..(Len(gate) - 1) :
        (gate[j].op = "propose" /\ gate[j + 1].op = "cancel") =>
            /\ gate[j + 1].at = gate[j + 1].before
            /\ RunsOf(gate[j].cmd, gate[j].at, WindowEnd(j + 1)) = 0
            /\ j + 1 = Len(gate) => (pending = Null /\ ~ApproveVisible)

\* A proposal was cancelled, and the session went on to run a command.
C4_Witness ==
    /\ Len(gate) = 2
    /\ gate[1].op = "propose"
    /\ gate[2].op = "cancel"
    /\ Len(reqs) > gate[2].at
    /\ reqs[Len(reqs)].url = "run"
    /\ pending = Null

\* The requests sent by approvals, and those sent by accepted submissions
\* (the gate session runs no cd, so there are no resolution requests).
ApproveReqs == {gate[l].at : l \in {n \in DOMAIN gate : gate[n].op = "approve"}}
SubmitReqs == DOMAIN reqs \ ApproveReqs

\* C22: an accepted submission discards the pending proposal, and the
\* discarded proposal is never executed afterwards.  While the request of a
\* submission is outstanding nothing is pending, and a run request for a
\* command proposed before a submission is sent after that submission only
\* if the command was proposed again in between.
C22_SubmissionDiscardsPending ==
    /\ (tasks # {} /\ Len(reqs) \in SubmitReqs) => (pending = Null /\ ~ApproveVisible)
    /\ \A j \in DOMAIN gate : \A k \in SubmitReqs :
           (gate[j].op = "propose" /\ gate[j].at < k) =>
               \A m \in (k + 1)..Len(reqs) :
                   (reqs[m].url = "run" /\ reqs[m].text = Some(gate[j].cmd)) =>
                       \E q \in DOMAIN gate :
                           /\ q > j
                           /\ gate[q].op = "propose"
                           /\ gate[q].cmd = gate[j].cmd
                           /\ gate[q].at >= k
                           /\ gate[q].at < m

\* A was proposed and a command then submitted in raw mode: the command ran,
\* nothing is pending and no request for A was sent.
C22_Witness ==
    /\ gate = <<GateEvent("propose", CmdA, 1, 1)>>
    /\ Len(reqs) = 2
    /\ reqs[2].url = "run"
    /\ reqs[2].text = Some(TxtPwd)
    /\ tasks = {}
    /\ pending = Null
    /\ ~loading

\* ------------------------------------------------- properties: decoding
\* The value carried by a line of a body, Null for a line that is dropped
\* before handleSSE (no marker, or a payload that is not JSON).
LineValue(line) ==
    IF \E v \in JSONValues : FrameLine(v) = line
    THEN Some(CHOOSE v \in JSONValues : FrameLine(v) = line)
    ELSE Null

RECURSIVE LineValues(_)
LineValues(script) ==
    IF script = <<>> THEN <<>>
    ELSE LineValue(Head(script)) \o LineValues(Tail(script))

IsPrefix(s, t) == Len(s) <= Len(t) /\ SubSeq(t, 1, Len(s)) = s

\* C5: for a body of N complete well-formed frames, however its bytes are cut
\* into chunks, handleSSE is called with exactly those N frames, in order,
\* each once: what was dispatched is always a prefix of the frames sent, and
\* all of them once the last byte has been read.
C5_ExactFramesInOrder ==
    \A i \in DOMAIN streams :
        LET s == streams[i] IN
        /\ IsPrefix(s.dispatched, LineValues(s.script))
        /\ (s.pc = "ended" \/ (s.pc = "reading" /\ s.wire = <<>>))
               => s.dispatched = LineValues(s.script)

\* A body of MaxLines frames, one of them with a two-byte character, read to
\* its end in chunks that ended inside a marker, a payload and the character.
C5_Witness ==
    \E i \in DOMAIN streams :
        /\ streams[i].pc = "ended"
        /\ Len(streams[i].script) = MaxLines
        /\ FrameLine(EvF2) = streams[i].script[2]
        /\ streams[i].cuts = {"marker", "payload", "char"}
        /\ Len(streams[i].dispatched) = MaxLines


\* ------------------------------------------------- properties: dispatch
\* What the claims call the session: results, progress, summary, messages.
SessionOf(st) == <<st.analysisResults, st.analyzeProgress, st.summary, st.messages>>

\* Lines of the body of stream s whose newline has been read.
DoneLines(s) == Len(s.script) - Cardinality(LineEnds(s.wire))

IsKnownEvent(v) == v.kind = "object" /\ v.type \in KnownTypes

\* The frames of known type among lines, in order.
KnownOf(lines) == SelectSeq(LineValues(lines), IsKnownEvent)

\* The handlers of a sequence of frames, applied one after the other.
RECURSIVE FoldEvents(_, _, _, _)
FoldEvents(st, events, repo, sumClosure) ==
    IF events = <<>> THEN st
    ELSE FoldEvents(HandleSSE(st, Head(events), repo, sumClosure),
                    Tail(events), repo, sumClosure)

\* A pass of the decode loop of stream i (a chunk was read).
IsReadStep(i) ==
    /\ i \in DOMAIN streams'
    /\ streams[i].pc = "reading"
    /\ streams'[i].pc = "reading"
    /\ streams'[i].wire # streams[i].wire

\* C6: a candidate frame whose payload does not parse, or whose type is not
\* one of the five known ones, changes nothing of results, progress, summary
\* or messages, and the frames after it are processed as if it were not
\* there: while the body is read, the session is what the known-type frames
\* among the lines read so far make of the session that runAnalysis reset.
C6_DroppedFramesIgnored ==
    \A i \in DOMAIN streams :
        LET s == streams[i] IN
        s.pc = "reading" =>
            SessionOf(AppState) =
                SessionOf(FoldEvents(s.started,
                                     KnownOf(SubSeq(s.script, 1, DoneLines(s))),
                                     s.repo, s.sumClosure))

\* A body "unparseable payload, unknown type, file_result" read to its end:
\* the file result is there and no message was added after the start notice.
C6_Witness ==
    \E i \in DOMAIN streams :
        /\ streams[i].pc = "ended"
        /\ streams[i].script = <<BadLine, FrameLine(EvU), FrameLine(EvF1)>>
        /\ analysisResults = <<[path |-> "a.py", analysis |-> "x"]>>
        /\ Last(messages) = AssistantMsg(<<"starting", streams[i].repo>>)

\* ----------------------------------------- properties: the final session
ProgressLines == {FrameLine(EvP1), FrameLine(EvP2)}
ResultLines == {FrameLine(EvF1), FrameLine(EvF2)}

\* Progress and file_result frames followed by one summary frame.
IsRunThenSummary(script) ==
    /\ script # <<>>
    /\ Last(script) = FrameLine(EvS)
    /\ \A j \in 1..(Len(script) - 1) : script[j] \in ProgressLines \cup ResultLines

IsResultLine(line) == line \in ResultLines
IsProgressLine(line) == line \in ProgressLines

RECURSIVE ResultsOf(_)
ResultsOf(script) ==
    IF script = <<>> THEN <<>>
    ELSE (IF IsResultLine(Head(script))
          THEN LET v == LineValue(Head(script))[1]
               IN <<[path |-> v.file, analysis |-> v.analysis]>>
          ELSE <<>>) \o ResultsOf(Tail(script))

\* The most recent progress frame of the body; the reset value if none.
LastProgress(script) ==
    LET ps == SelectSeq(script, IsProgressLine)
    IN IF ps = <<>> THEN Some(ProgressZero)
       ELSE LET v == LineValue(Last(ps))[1]
            IN Some([current |-> v.current, total |-> v.total, file |-> v.file])

IsDoneNotice(m) == m.content[1] = "done-count"
IndexesOf(d, v) == {j \in DOMAIN d : d[j] = v}
Min(S) == CHOOSE x \in S : \A y \in S : x <= y

\* C8: a done frame processed after a summary frame of the same session is a
\* no-op; when every done frame dispatched so far came after a summary frame,
\* the summary stands and no fallback completion notice is in the messages.
C8_DoneAfterSummaryNoOp ==
    \A i \in DOMAIN streams :
        LET d == streams[i].dispatched IN
        (/\ streams[i].pc = "reading"
         /\ IndexesOf(d, EvD) # {}
         /\ IndexesOf(d, EvS) # {}
         /\ Min(IndexesOf(d, EvS)) < Min(IndexesOf(d, EvD)))
        => /\ summary = Some(EvS.summary)
           /\ SelectSeq(messages, IsDoneNotice) = <<>>

IsTerminalEvent(v) == v.kind = "object" /\ v.type \in {"summary", "done", "error"}

\* C9: once a summary, done or error frame has been processed, no later pass
\* of the decode loop changes results, progress, summary or messages.
C9_TerminalFramesFinal ==
    [][\A i \in DOMAIN streams :
          (/\ IsReadStep(i)
           /\ \E j \in DOMAIN streams[i].dispatched :
                  IsTerminalEvent(streams[i].dispatched[j]))
          => SessionOf(AppState') = SessionOf(AppState)
      ]_vars

IsResultEvent(v) == v.kind = "object" /\ v.type = "file_result"

\* C10: an error frame ends the session; while the stream is read after it,
\* the warning is the last message, results hold the file results that came
\* before the error only, and a summary is set only if it came before it.
C10_ErrorEndsSession ==
    \A i \in DOMAIN streams :
        LET d == streams[i].dispatched IN
        (streams[i].pc = "reading" /\ IndexesOf(d, EvE) # {}) =>
            LET before == SubSeq(d, 1, Min(IndexesOf(d, EvE)))
            IN /\ Last(messages) = AssistantMsg(<<"warning", EvE.message>>)
               /\ Len(analysisResults) = Len(SelectSeq(before, IsResultEvent))
               /\ (summary # Null => IndexesOf(before, EvS) # {})

\* ------------------------------------------ properties: several analyses
\* The lines of the body of stream s read so far.
ReadLines(s) == SubSeq(s.script, 1, DoneLines(s))

SummaryOf(lines) ==
    IF \E j \in DOMAIN lines : lines[j] = FrameLine(EvS) THEN Some(EvS.summary) ELSE Null

\* C11: after a new analysis has started, the frames and the end of an
\* earlier stream do not touch the session: while the newest stream is being
\* fetched or read, results, progress and summary are what the frames of the
\* newest stream alone make of them, and the session is marked as running.
C11_NewestStreamOnly ==
    streams # <<>> =>
        LET s == Last(streams) IN
        s.pc \in {"fetch", "reading"} =>
            /\ analysisResults = ResultsOf(ReadLines(s))
            /\ analyzeProgress = LastProgress(ReadLines(s))
            /\ summary = SummaryOf(ReadLines(s))
            /\ isAnalyzing

\* ------------------------------------- properties: the terminal session
\* C12: while a command or suggestion request is outstanding, a submission
\* is a no-op.  In every step taken while loading, no command or suggestion
\* is started; the request log, the history, the pending proposal and the
\* working directory change only by the continuation of the outstanding
\* request, and the input is not cleared.
C12_RejectedWhileLoading ==
    [][loading =>
          /\ nOps' = nOps
          /\ (input' = <<>> => input = <<>>)
          /\ (history' # history \/ pending' # pending \/ cwd' # cwd \/ reqs' # reqs)
                 => \E t \in tasks : t \notin tasks'
          /\ reqs' # reqs
                 => \E t \in tasks, u \in tasks' :
                        t.pc = "exec" /\ u.pc = "resolve" /\ u.id = t.id
      ]_vars

\* A command is outstanding while the input holds a command text: a
\* submission at this point is the rejected one.
C12_Witness ==
    /\ loading
    /\ Trim(input) = TxtPwd
    /\ \E t \in tasks : t.pc = "exec"
    /\ Len(history) >= 2

\* The executions in flight: runCommand invocations awaiting a response.
Executions == {t \in tasks : t.pc \in {"exec", "resolve"}}

\* C13: at most one command execution is in flight, whichever entry point
\* started it; while a request is outstanding the session is loading and
\* holds no proposal that could be approved.
C13_OneExecutionInFlight ==
    /\ Cardinality(Executions) <= 1
    /\ Cardinality(tasks) <= 1
    /\ tasks # {} => (loading /\ ~ApproveVisible)

\* An execution started by an approval is in flight while the input holds a
\* command text.
C13_Witness ==
    /\ Cardinality(Executions) = 1
    /\ gate # <<>>
    /\ Last(gate).op = "approve"
    /\ Last(gate).at = Len(reqs)
    /\ Trim(input) # <<>>

\* Directories a successful resolution request can report.
ResolvedDirs ==
    {Trim(r.stdout) : r \in {x \in TermResolveResps : x.net = "ok" /\ x.stdout # <<>>}}

\* C14: the working directory changes only in the step that receives the
\* answer of the resolution request of a cd command whose execution was
\* answered without error, and only to the directory that answer reports.
C14_CwdOnlyAfterConfirmedCd ==
    [][cwd' # cwd =>
          \E t \in tasks :
              /\ t.pc = "resolve"
              /\ t \notin tasks'
              /\ StartsWith(t.cmd[1], CdPrefix)
              /\ t.data # Null
              /\ t.data[1].net = "ok"
              /\ t.data[1].error = <<>>
              /\ cwd' \in ResolvedDirs
      ]_vars

\* A cd command was executed and resolved: the working directory changed.
C14_Witness ==
    /\ cwd = <<"/", "w", "/", "x">>
    /\ tasks = {}
    /\ ~loading
    /\ Len(reqs) = 2
    /\ reqs[1].text = Some(TxtCd)
    /\ reqs[2].cwd = <<"/", "w", "/", "x">>

\* The texts of the session that begin with a recognized command word.
DirectTexts == {TxtPwd, TxtCd}

\* C20: every accepted submission takes exactly one path: one request, to
\* /terminal/run with the text in raw mode or, in AI mode, when the text
\* begins with a recognized command word, and otherwise a dry-run request
\* to /terminal/ai.  Any other run request is the one of an approval of the
\* pending proposal, or the resolution request of a running cd.
C20_Classification ==
    [][/\ (nOps' # nOps /\ gate' = gate) =>
              LET text == Trim(input)
                  q == Last(reqs')
              IN /\ Len(reqs') = Len(reqs) + 1
                 /\ Cardinality(tasks' \ tasks) = 1
                 /\ q.text = Some(text)
                 /\ q.url = (IF mode = "raw" \/ text \in DirectTexts THEN "run" ELSE "ai")
                 /\ q.url = "ai" => q.dry_run = Some(TRUE)
                 /\ \A t \in tasks' \ tasks : t.pc = (IF q.url = "run" THEN "exec" ELSE "ai")
       /\ (nOps' # nOps /\ gate' # gate) =>
              /\ Truthy(pending)
              /\ Len(reqs') = Len(reqs) + 1
              /\ Last(reqs').url = "run"
              /\ Last(reqs').text = pending
       /\ (nOps' = nOps /\ reqs' # reqs) =>
              \E t \in tasks : t.pc = "exec" /\ StartsWith(t.cmd[1], CdPrefix)
      ]_vars

\* A text that only starts with the letters of a command word went to the
\* AI, and a cd command was then executed directly.
C20_Witness ==
    /\ Len(reqs) >= 2
    /\ reqs[1].url = "ai"
    /\ reqs[1].text = Some(TxtLsx)
    /\ reqs[2].url = "run"
    /\ reqs[2].text = Some(TxtCd)
    /\ gate = <<>>

\* C21: every runCommand and every askAI clears the loading flag in the end,
\* whatever its requests answer: once every request is settled, a session
\* with a request outstanding reaches a state with none outstanding and
\* loading false, and loading is never true without an outstanding request.
C21_LoadingCleared ==
    /\ [](loading => tasks # {})
    /\ (tasks # {}) ~> (tasks = {} /\ ~loading)

\* The resolution request of a cd command failed on the network and the
\* session accepts submissions again.
C21_Witness ==
    /\ ~loading
    /\ tasks = {}
    /\ Len(reqs) = 2
    /\ reqs[1].text = Some(TxtCd)
    /\ reqs[2].text = Some(TxtPwd)
    /\ Last(history) = NetworkErrorLine
    /\ cwd = InitialCwd

\* The suggestion request that produced the proposal standing after the
\* first n requests: the latest request to /terminal/ai among them.
AIReqBefore(n) ==
    LET ai == {m \in 1..n : reqs[m].url = "ai"}
    IN CHOOSE m \in ai : \A o \in ai : o <= m

\* C23: an approved proposal is executed in the working directory that was
\* sent with the suggestion request that produced it.  While a proposal is
\* pending the working directory is still the one of that request, and the
\* run request of every approval carries it.
C23_ApprovedInProposalCwd ==
    /\ ApproveVisible =>
           /\ \E m \in DOMAIN reqs : reqs[m].url = "ai"
           /\ reqs[AIReqBefore(Len(reqs))].cwd = cwd
           /\ Last(gate).op = "propose"
           /\ AIReqBefore(Len(reqs)) = Last(gate).at
    /\ \A l \in DOMAIN gate :
           gate[l].op = "approve" =>
               /\ \E m \in 1..gate[l].before : reqs[m].url = "ai"
               /\ reqs[gate[l].at].url = "run"
               /\ reqs[gate[l].at].cwd = reqs[AIReqBefore(gate[l].before)].cwd

\* After a cd changed the working directory a prompt was sent from the new
\* directory, and its suggestion was approved and executed there.
C23_Witness ==
    /\ Len(reqs) = 4
    /\ reqs[1].text = Some(TxtCd)
    /\ reqs[3].url = "ai"
    /\ reqs[3].cwd = <<"/", "w", "/", "x">>
    /\ reqs[4].url = "run"
    /\ reqs[4].text = Some(CmdA)
    /\ reqs[4].cwd = <<"/", "w", "/", "x">>
    /\ Last(gate).op = "approve"
    /\ cwd # InitialCwd

\* --------------------------------------------- properties: validation
\* C15: missing input is rejected before any request: no command or
\* suggestion request carries an empty or whitespace-only text, and no file
\* request (read, write, delete, AI write) carries an empty path.
C15_NoRequestWithoutInput ==
    /\ \A k \in DOMAIN reqs : reqs[k].text # Null /\ Trim(reqs[k].text[1]) # <<>>
    /\ \A k \in DOMAIN freqs : freqs[k].path # ""

\* ------------------------------------ properties: transport and restart
IsFailedMsg(m) == m = FailedMsg

FailedStreams == {i \in DOMAIN streams : streams[i].pc = "failed"}

\* C16: a failed request or chunk read of an analysis is reported by exactly
\* one message, the stream is not read any further, and its request is not
\* sent again: the failure messages are as many as the failed streams, every
\* analysis has sent one request, and a failed stream never changes again.
C16_TransportFailureOnce ==
    /\ [](/\ Len(SelectSeq(messages, IsFailedMsg)) = Cardinality(FailedStreams)
          /\ \A i \in DOMAIN streams : streams[i].requests = 1
          /\ FailedStreams # {} /\ (\A i \in DOMAIN streams : streams[i].pc \in {"failed", "ended"})
                 => ~isAnalyzing /\ analyzeProgress = Null)
    /\ [][\A i \in FailedStreams : streams'[i] = streams[i]]_vars

\* A stream failed after some of its frames were read, with bytes unread.
C16_Witness ==
    \E i \in DOMAIN streams :
        /\ streams[i].pc = "failed"
        /\ streams[i].dispatched # <<>>
        /\ streams[i].wire # <<>>
        /\ Last(messages) = FailedMsg
        /\ ~isAnalyzing

\* The lines a pass of the decode loop of stream i consumes in this step.
StepLines(i) == SubSeq(streams[i].script, DoneLines(streams[i]) + 1, DoneLines(streams'[i]))

\* C17: a done frame adds the fallback completion notice if and only if no
\* summary is recorded in the session at that time (a summary of an earlier
\* session, cleared by the start, does not count).
C17_DoneNoticeIffNoSummary ==
    [][\A i \in DOMAIN streams :
          (IsReadStep(i) /\ StepLines(i) = <<FrameLine(EvD)>>)
          => ((/\ Len(messages') = Len(messages) + 1
               /\ IsDoneNotice(Last(messages')))
              <=> summary = Null)
      ]_vars

\* C18: starting an analysis leaves results empty, progress (0, 0, "") and
\* summary cleared, whatever was there before: this is the session every
\* analysis starts from, and the session of an analysis that runs alone
\* until its first chunk is read.
C18_StartResets ==
    \A i \in DOMAIN streams :
        LET st == streams[i].started IN
        /\ st.analysisResults = <<>>
        /\ st.analyzeProgress = Some(ProgressZero)
        /\ st.summary = Null
        /\ (streams[i].pc = "fetch" /\ Len(streams) = 1) =>
               /\ analysisResults = <<>>
               /\ analyzeProgress = Some(ProgressZero)
               /\ summary = Null

\* A second analysis has started after one that left a result and a summary.
C18_Witness ==
    /\ Len(streams) = 2
    /\ streams[1].pc = "ended"
    /\ streams[1].script = <<FrameLine(EvF1), FrameLine(EvS)>>
    /\ streams[2].pc = "fetch"
    /\ streams[2].sumClosure = Some(EvS.summary)
    /\ summary = Null
    /\ analysisResults = <<>>

\* ---------------------------------------- properties: trailing fragment
\* The lines still to come for stream s: what is in the buffer followed by
\* what the decoder makes of the unread bytes, split at the newlines.
LinesAhead(s) == SplitLines(s.buffer \o TextDecode(s.kept, s.wire)[1])

\* C19: the fragment after the last newline stays in the buffer and is
\* completed by the following chunks: the buffer and the unread bytes always
\* make up the lines not dispatched yet, ending with the unterminated one.
\* Only newline-terminated lines are dispatched, and at the end of the
\* stream the unterminated fragment is in the buffer, not dispatched.
C19_TailNeverDispatched ==
    \A i \in DOMAIN streams :
        LET s == streams[i] IN
        s.tail # Null =>
            /\ IsPrefix(s.dispatched, LineValues(s.script))
            /\ s.pc = "reading" =>
                   LinesAhead(s) =
                       SubSeq(s.script, Len(s.dispatched) + 1, Len(s.script)) \o s.tail
            /\ s.pc = "ended" =>
                   /\ s.dispatched = LineValues(s.script)
                   /\ s.buffer = s.tail[1]

\* A body "file_result, summary" without the last newline was read to its
\* end in chunks cut inside a payload: the summary frame is complete in the
\* buffer and was not dispatched.
C19_Witness ==
    \E i \in DOMAIN streams :
        /\ streams[i].pc = "ended"
        /\ streams[i].script = <<FrameLine(EvF1)>>
        /\ streams[i].tail = Some(FrameLine(EvS))
        /\ streams[i].buffer = FrameLine(EvS)
        /\ "payload" \in streams[i].cuts
        /\ streams[i].dispatched = <<EvF1>>
        /\ summary = Null

====
